---- MODULE Spec2Model ----
(***************************************************************************)
(* Incremental synchronisation of the sales scrapers: the count gate, the  *)
(* paginated walk (main.py: full reconciliation, update_daily.py: daily    *)
(* incremental), the per-record MongoDB insert and the batch coordinator   *)
(* that fans the walk out over a thread pool.                              *)
(*                                                                         *)
(* Items are numbered newest first: a query's remote feed is an ascending  *)
(* sequence of item numbers.  A hit is the record [itemId |-> i]; the      *)
(* fields the walk never branches on (price, seller, ...) are left out.    *)
(***************************************************************************)
EXTENDS Integers, Sequences, FiniteSets, TLC

\* ------------------------------------------------------------------ bounds
\* Page size of the walk (limit = 50 in the source), scaled down so that
\* multi-page feeds stay small; every formula below is stated over limit.
limit == 2
\* Longest remote feed, and number of distinct items, of the one-query runs.
MaxFeed == 4
\* Longest remote feed of a query in the concurrent batch runs.
BatchMaxFeed == 1
\* Number of queries (tasks) of the concurrent batch runs.
BatchTasks == 2
\* Failures the environment injects into a one-query run: store calls that
\* raise, page requests that fail, unexpected exceptions in the task.
MaxFaults == 2
\* Number of population records saved in a run of a population script.
MaxSaves == 3
\* Longest date string of a hit
MaxDate == 3
\* Longest list of records handed to the SQL handler's insert_data_batch
MaxRecords == 2

\* --------------------------------------------------------------- constants
Modes == {"full", "daily"}          \* main.py / update_daily.py
QA == <<"a">>
QAB == <<"a", " ", "b">>
Queries == {QA, QAB}                \* "a" is a prefix of "a b"
Items == 1..MaxFeed
CountError == 0 - 1                 \* get_mongodb_count_for_query's error value

\* ------------------------------------------------------------------ helpers
Min(a, b) == IF a <= b THEN a ELSE b

\* math.ceil(a / b) for naturals a and b > 0
Ceil(a, b) == (a + b - 1) \div b

RECURSIVE Flatten(_)
Flatten(ss) == IF ss = <<>> THEN <<>> ELSE Head(ss) \o Flatten(Tail(ss))

\* urllib.parse.quote on one character: letters are kept, a space becomes %20
QuoteChar(c) == IF c = " " THEN <<"%", "2", "0">> ELSE <<c>>

\* urllib.parse.quote(query): character by character
quote(q) == Flatten([i \in 1..Len(q) |-> QuoteChar(q[i])])

\* decimal digits of a page index, as characters
Digits == <<"0", "1", "2", "3", "4", "5", "6", "7", "8", "9">>
RECURSIVE PageStr(_)
PageStr(p) == IF p < 10 THEN <<Digits[p + 1]>>
              ELSE PageStr(p \div 10) \o <<Digits[(p % 10) + 1]>>

\* The request URL of one page, as a sequence of tokens and characters:
\* "...&query=<quoted>&limit=50..." on page 0, with "&page=<p>" otherwise.
PageUrl(q, page) ==
    <<"search?index=salesarchive&", "query=">> \o quote(q)
        \o (IF page = 0 THEN <<>> ELSE <<"&page=">> \o PageStr(page))
        \o <<"&limit=", "&filters=&sort=date&direction=desc">>

\* f"query={quote(query)}"
SearchPattern(q) == <<"query=">> \o quote(q)

\* {"$regex": pattern}: the pattern occurs somewhere in the text
RegexFound(pattern, text) ==
    \E i \in 1..(Len(text) - Len(pattern) + 1) :
        SubSeq(text, i, i + Len(pattern) - 1) = pattern

\* collection.count_documents({"search_url": {"$regex": search_pattern}})
CountDocuments(st, q) ==
    Cardinality({r \in st : RegexFound(SearchPattern(q), r.search_url)})

\* count_documents({"search_url": {"$regex": ...}, "itemId": item_id}) > 0
ItemExistsForQuery(st, q, item_id) ==
    \E r \in st : r.itemId = item_id /\ RegexFound(SearchPattern(q), r.search_url)

\* The hits of one page of a feed: data.get('hits', [])
PageHits(fd, page) ==
    SubSeq(fd, page * limit + 1, Min((page + 1) * limit, Len(fd)))

\* One hit after the per-hit metadata is added
Normalize(item, url) == [itemId |-> item, search_url |-> url]

\* The itemId of a hit is a positive number; two more values stand for a hit
\* whose "itemId" key is absent and for one whose itemId is the empty string
MissingItemId == 0 - 1
EmptyItemId == 0

\* 'itemId' in item
HasItemIdKey(item) == item # MissingItemId

\* Mutant of the test before the existence check: only the key is tested
NeedsCheckKeyOnly(item) == HasItemIdKey(item)

\* "itemId" in hit and hit["itemId"]: the hit is checked against the store
NeedsCheck(item) == HasItemIdKey(item) /\ item # EmptyItemId

\* Mutant of the existence check: a check that raised answers True
FirstExistingFailClosed(st, q, hits, failing) ==
    LET found == {i \in 1..Len(hits) :
                    /\ NeedsCheck(hits[i])
                    /\ i \in failing \/ ItemExistsForQuery(st, q, hits[i])}
    IN IF found = {} THEN 0 ELSE CHOOSE i \in found : \A j \in found : i <= j

\* Position of the first hit of the page that the existence check reports as
\* stored (0 when there is none); failing is the set of positions whose check
\* raised inside check_if_item_exists_in_db and therefore answered False.
FirstExisting(st, q, hits, failing) ==
    LET found == {i \in 1..Len(hits) :
                    /\ NeedsCheck(hits[i])
                    /\ i \notin failing /\ ItemExistsForQuery(st, q, hits[i])}
    IN IF found = {} THEN 0 ELSE CHOOSE i \in found : \A j \in found : i <= j


\* ------------------------------------------------------------ outer batches
\* Queries per outer batch (batch_size = 50 in main.py, 20 in update_daily.py),
\* scaled to the number of tasks of the batch runs
batch_size == BatchTasks

\* Cap of the pool in max_workers = min(len(batch_queries), W): the scripts
\* use the number of their batch_size (50, 20)
W == batch_size

\* Mutant of Python's min: max is written instead
max(a, b) == IF a >= b THEN a ELSE b

\* Python's builtin min, as the coordinator uses it for end_idx and max_workers
min(a, b) == IF a <= b THEN a ELSE b

\* Mutant of the number of outer batches: the division rounds down
total_batchesFloor(qs) == Len(qs) \div batch_size

\* math.ceil(len(all_queries) / batch_size)
total_batches(qs) == Ceil(Len(qs), batch_size)

\* The Python slice s[a:b], which stops at the end of s
PySlice(s, a, b) == SubSeq(s, a + 1, IF b <= Len(s) THEN b ELSE Len(s))

\* batch_queries = all_queries[start_idx:end_idx] of outer batch b
BatchSlice(qs, b) ==
    LET start_idx == b * batch_size
        end_idx == min(start_idx + batch_size, Len(qs))
    IN PySlice(qs, start_idx, end_idx)

\* ThreadPoolExecutor(max_workers=min(len(batch_queries), W))
max_workers(queries) == min(Len(queries), W)

\* ------------------------------------------------------ population table
\* The compound key of a population row: (gemrate_id, grading_company,
\* grade_type, grade_value), the columns of the table's UNIQUE KEY
PopKeys == {"g1", "g2"} \X {"PSA"} \X {"grade"} \X {"9", "10"}
GradeCounts == {1, 2}
PopRecords == [key : PopKeys, grade_count : GradeCounts]
NoRecord == [key |-> <<>>, grade_count |-> 0]

\* The UNIQUE KEY of the table is hit by the record
KeyExists(rows, rec) == \E r \in rows : r.key = rec.key

\* INSERT ... ON DUPLICATE KEY UPDATE col=VALUES(col): the row of the key is
\* replaced by the record, or the record is added
insert_population_record(rows, rec) ==
    {r \in rows : r.key # rec.key} \cup {rec}

\* INSERT IGNORE: a record whose key exists is dropped (rowcount 0)
InsertIgnore(rows, rec) == IF KeyExists(rows, rec) THEN rows ELSE rows \cup {rec}

\* One iteration of save_population_records' loop on the counters p
save_population_record(p, rec, ok) ==
    IF ~ok THEN [p EXCEPT !.errors = @ + 1]
    ELSE IF KeyExists(p.rows, rec)
    THEN [p EXCEPT !.rows = InsertIgnore(p.rows, rec), !.duplicates = @ + 1]
    ELSE [p EXCEPT !.rows = InsertIgnore(p.rows, rec), !.inserted = @ + 1]

\* The population table and the retry loop while no call of them is modelled
IdlePopulation == [script |-> "none", rows |-> {}, saves |-> 0, last |-> NoRecord,
                   last_ok |-> FALSE, existed |-> FALSE,
                   inserted |-> 0, duplicates |-> 0, errors |-> 0]
IdleRetry == [rpc |-> "idle", attempt |-> 0, outcomes |-> <<>>, result |-> "no_call"]

\* ---------------------------------------------------------- hit metadata
\* Values of the fields of a hit: strings (sequences of characters), null and
\* booleans
Str(s) == [kind |-> "str", s |-> s]
Null == [kind |-> "null"]
Bool(b) == [kind |-> "bool", b |-> b]

\* Strings of d and T of up to MaxDate characters, for the date field
DateStrings == UNION {[1..n -> {"d", "T"}] : n \in 0..MaxDate}

\* The hits of a page: itemId and title, and any of cardId, date and (as sent
\* by the API) Verified
HitFields ==
    [cardId : {Null, Str(<<>>), Str(<<"c">>)},
     date : {Null} \cup {Str(d) : d \in DateStrings},
     Verified : {Bool(TRUE)}]
Restrict(f, D) == [k \in D |-> f[k]]
Hits ==
    {[itemId |-> Str(<<"1">>), title |-> Str(<<"t">>)] @@ Restrict(f, D) :
        f \in HitFields, D \in SUBSET {"cardId", "date", "Verified"}}

\* str.split("T")[0]: the string up to the first T, all of it when it has none
SplitT0(s) ==
    LET ts == {i \in 1..Len(s) : s[i] = "T"}
    IN IF ts = {} THEN s
       ELSE SubSeq(s, 1, (CHOOSE i \in ts : \A j \in ts : i <= j) - 1)

\* Mutant of the cardId test: only the presence of the key is tested
HasCardIdKeyOnly(hit) == "cardId" \in DOMAIN hit

\* "cardId" in hit and hit["cardId"] != "" and hit["cardId"] is not None
HasCardId(hit) ==
    /\ "cardId" \in DOMAIN hit
    /\ hit["cardId"] # Str(<<>>)
    /\ hit["cardId"] # Null

\* hit["date"].split raises: the date is not a string
DateRaises(hit) == "date" \in DOMAIN hit /\ hit["date"].kind # "str"

\* The assignments the for loop makes to the hit before it is appended
\* (search_query in main.py only)
AddMetadata(md, hit, url, query) ==
    LET h1 == ("search_url" :> Str(url)) @@ hit
        h2 == IF md = "full" THEN ("search_query" :> Str(query)) @@ h1 ELSE h1
        h3 == ("Verified" :> Bool(HasCardId(hit))) @@ h2
    IN IF "date" \in DOMAIN hit /\ ~DateRaises(hit)
       THEN ("date_normal" :> Str(SplitT0(hit["date"].s))) @@ h3
       ELSE h3

IdleNorm == [pc |-> "idle"]
IdleSql == [pc |-> "idle"]

\* ------------------------------------------------------------ retry wrapper
\* "for attempt in range(1, 4)": the attempts of make_api_request_with_retry
MaxAttempts == 3

\* What one session.get of the wrapper ends in: a response of status 200 or
\* of another status, or one of the three exceptions the wrapper catches
GetOutcomes == {"200", "non200", "Timeout", "ConnectionError", "RequestException"}

\* The wrapper is entered: attempt 1 is due
NewRetry == [rpc |-> "attempt", attempt |-> 1, outcomes |-> <<>>, result |-> "pending"]

\* Mutant of the wrapper: the loop goes on to a fourth attempt
RetryAttemptOneMore(r, outcome) ==
    LET r1 == [r EXCEPT !.outcomes = Append(@, outcome)]
    IN IF outcome = "200"
       THEN [r1 EXCEPT !.rpc = "returned", !.result = "response"]
       ELSE IF r.attempt <= MaxAttempts
       THEN [r1 EXCEPT !.attempt = @ + 1]
       ELSE [r1 EXCEPT !.rpc = "returned", !.result = "None"]

\* One iteration of the wrapper's for loop: a 200 is returned at once, any
\* other outcome leads to the next attempt (after the backoff sleep), and
\* after the last attempt the loop is left and None returned
RetryAttempt(r, outcome) ==
    LET r1 == [r EXCEPT !.outcomes = Append(@, outcome)]
    IN IF outcome = "200"
       THEN [r1 EXCEPT !.rpc = "returned", !.result = "response"]
       ELSE IF r.attempt < MaxAttempts
       THEN [r1 EXCEPT !.attempt = @ + 1]
       ELSE [r1 EXCEPT !.rpc = "returned", !.result = "None"]

\* -------------------------------------------------------------------- state
VARIABLES
    mode,           \* which script runs: "full" (main.py) or "daily" (update_daily.py)
    feed,           \* the remote feed of every query, newest first
    store,          \* the documents of the MongoDB collection
    batch_queries,  \* the queries of the batch, one task each
    task,           \* per task: position, walk cursor, insert counters, history
    batch_results,  \* the shared counters of the batch
    global_stats,   \* the run's totals, filled when the batch has ended
    stats_lock,     \* holder of stats_lock (0: free)
    print_lock,     \* holder of print_lock (0: free)
    cpc,            \* coordinator: "running", "raising", or how the run ended
    run,            \* number of the current run of the script
    run_store,      \* history: the store when the current run started
    faults,         \* number of failures injected into the current run
    prev_faults,    \* history: the same, for the run before
    all_queries,    \* the queries read from input.xlsx
    batch_num,      \* index of the current outer batch
    population,     \* the population table and the counters of its writer
    retry,          \* one call of make_api_request_with_retry
    conn,           \* the MongoDB connection of the run: "open" or "closed"
    norm,           \* one hit of a page and what the for loop makes of it
    sql             \* one call of SQLDBHandler.insert_data_batch and its table

\* The state outside the batches of the sales scripts
otherVars == <<population, retry, conn, norm, sql>>

\* What the steps of a task never touch
restVars == <<all_queries, batch_num, otherVars>>

\* What a step of a task leaves alone
salesStatic == <<mode, feed, store, batch_queries, all_queries, batch_num, run,
                 run_store, prev_faults, conn>>

\* The variables of the sales scripts other than the connection
salesVars == <<mode, feed, store, batch_queries, task, batch_results,
               global_stats, stats_lock, print_lock, cpc, run, run_store, faults,
               prev_faults, all_queries, batch_num>>

vars == <<mode, feed, store, batch_queries, task, batch_results, global_stats,
          stats_lock, print_lock, cpc, run, run_store, faults, prev_faults,
          all_queries, batch_num, population, retry, conn, norm, sql>>

Tasks == 1..Len(batch_queries)

NewBatchResults == [queries_processed |-> 0, total_records |-> 0,
                    total_inserted |-> 0, total_duplicates |-> 0,
                    total_errors |-> 0]

\* A task that was submitted to the pool and has not started yet; seen is the
\* value of the shared counters the task read under stats_lock
NewTask == [pc |-> "start", db_count |-> 0, page |-> 0, new_data |-> <<>>,
            found_existing |-> FALSE, ret |-> <<>>, idx |-> 1,
            inserted_count |-> 0, duplicate_count |-> 0, error_count |-> 0,
            seen |-> NewBatchResults,
            requested |-> <<>>, ended |-> "NONE", counted |-> FALSE,
            raised |-> FALSE, escaped |-> FALSE]

NewGlobalStats == [total_queries_processed |-> 0, queries_up_to_date |-> 0,
                   queries_updated |-> 0, total_records |-> 0,
                   total_inserted |-> 0, total_duplicates |-> 0,
                   total_errors |-> 0]

\* Stores a run can start from: every item is absent or was stored once, by an
\* earlier run, from page 0 of one of the queries.
InitStores ==
    UNION { { {Normalize(i, PageUrl(f[i], 0)) : i \in D} : f \in [D -> Queries] }
            : D \in SUBSET Items }

\* The feed <<1, ..., n>>
FeedOf(n) == [i \in 1..n |-> i]

InitCommon ==
    /\ batch_num = 0
    /\ batch_queries = BatchSlice(all_queries, 0)
    /\ mode \in Modes
    /\ task = [t \in Tasks |-> NewTask]
    /\ batch_results = NewBatchResults
    /\ global_stats = NewGlobalStats
    /\ stats_lock = 0
    /\ print_lock = 0
    /\ cpc = "running"
    /\ run = 1
    /\ run_store = store
    /\ faults = 0
    /\ prev_faults = 0
    /\ population = IdlePopulation
    /\ retry = IdleRetry
    /\ conn = "open"
    /\ norm = IdleNorm
    /\ sql = IdleSql

\* The variables of the sales scripts while another script is modelled
SalesIdle ==
    /\ mode = "full" /\ all_queries = <<>> /\ batch_queries = <<>> /\ batch_num = 0
    /\ feed = [q \in Queries |-> <<>>] /\ store = {} /\ run_store = {}
    /\ task = <<>> /\ batch_results = NewBatchResults
    /\ global_stats = NewGlobalStats /\ stats_lock = 0 /\ print_lock = 0
    /\ cpc = "idle" /\ run = 1 /\ faults = 0 /\ prev_faults = 0
    /\ conn = "closed"

\* One query, any feed of up to MaxFeed items, any store
Init ==
    /\ \E q \in Queries :
        /\ all_queries = <<q>>
        /\ \E n \in 0..MaxFeed :
              feed = [x \in Queries |-> IF x = q THEN FeedOf(n) ELSE <<>>]
    /\ store \in InitStores
    /\ InitCommon


\* ------------------------------------------------------------ the fetcher
\* Mutant of the task: the returned records are not saved by the task itself
\* (the save is left to a later pass)
AfterFetchNoSave(md, ret) == IF md = "daily" THEN "nodata" ELSE "done"

\* What the task does once the fetcher has returned: "if new_data:" saves,
\* otherwise update_daily prints "No new records found" and main.py is done.
AfterFetch(md, ret) ==
    IF ret # <<>> THEN "save" ELSE IF md = "daily" THEN "nodata" ELSE "done"

\* get_mongodb_count_for_query: the count, or -1 when the store call raised
GetCount(st, q, ok) == IF ok THEN CountDocuments(st, q) ELSE CountError

\* Mutant of the count step: the error value is not tested and the walk starts
CountStepIgnoresError(md, st, q, c, ok) ==
    [c EXCEPT !.db_count = GetCount(st, q, ok), !.pc = "page"]

\* "Step 1: Get current DB count" of the fetcher; c is the task's record
CountStep(md, st, q, c, ok) ==
    LET n == GetCount(st, q, ok)
    IN IF n = CountError
       THEN [c EXCEPT !.db_count = n, !.ret = <<>>, !.ended = "FAILED",
                      !.pc = AfterFetch(md, <<>>)]
       ELSE [c EXCEPT !.db_count = n, !.pc = "page"]

\* The hits the for loop appends: all of them, or in daily mode those before
\* the first hit found to exist (k is its position, 0 when there is none)
Appended(c, q, hits, k) ==
    LET taken == IF k = 0 THEN hits ELSE SubSeq(hits, 1, k - 1)
    IN c.new_data \o [i \in 1..Len(taken) |-> Normalize(taken[i], PageUrl(q, c.page))]

\* The walk returns new_data / all_data
Return(c, md, data, status) ==
    [c EXCEPT !.new_data = data, !.ret = data, !.ended = status,
              !.pc = AfterFetch(md, data)]

\* Mutant of the count gate: > for >=
NoUpdateNeededStrict(db_count, total_hits) == db_count > total_hits

\* "if db_count >= total_hits": the count gate of page 0
NoUpdateNeeded(db_count, total_hits) == db_count >= total_hits

\* Mutant of the walk: an existing hit sets the flag but the loop goes on to
\* the next page (the break after the for loop is missing, the loop is
\* "while True")
WalkOnResponseNoStop(md, st, q, fd, c, failing) ==
    LET hits == PageHits(fd, c.page)
        total_hits == Len(fd)
        k == IF md = "daily" THEN FirstExisting(st, q, hits, failing) ELSE 0
        data == Appended(c, q, hits, k)
        c1 == IF k # 0 THEN [c EXCEPT !.found_existing = TRUE] ELSE c
    IN IF c.page = 0 /\ NoUpdateNeeded(c.db_count, total_hits)
       THEN Return(c, md, <<>>, "NO_UPDATE_NEEDED")
       ELSE IF hits = <<>> THEN Return(c, md, c.new_data, "DONE")
       ELSE IF Len(hits) < limit THEN Return(c1, md, data, "DONE")
       ELSE IF c.page >= Ceil(total_hits, limit) THEN Return(c1, md, data, "DONE")
       ELSE [c1 EXCEPT !.new_data = data, !.page = c.page + 1]

\* Mutant of the walk: a full page is taken for the end of the feed
\* (len(hits) <= limit)
WalkOnResponseOnePage(md, st, q, fd, c, failing) ==
    LET hits == PageHits(fd, c.page)
        total_hits == Len(fd)
        k == IF md = "daily" THEN FirstExisting(st, q, hits, failing) ELSE 0
        data == Appended(c, q, hits, k)
    IN IF c.page = 0 /\ NoUpdateNeeded(c.db_count, total_hits)
       THEN Return(c, md, <<>>, "NO_UPDATE_NEEDED")
       ELSE IF hits = <<>> THEN Return(c, md, c.new_data, "DONE")
       ELSE IF k # 0 THEN Return([c EXCEPT !.found_existing = TRUE], md, data, "DONE")
       ELSE Return(c, md, data, "DONE")

\* Mutant of the walk: the test "len(hits) < limit" is missing, the walk only
\* ends on the page arithmetic or on an empty page
WalkOnResponseNoShortStop(md, st, q, fd, c, failing) ==
    LET hits == PageHits(fd, c.page)
        total_hits == Len(fd)
        k == IF md = "daily" THEN FirstExisting(st, q, hits, failing) ELSE 0
        data == Appended(c, q, hits, k)
    IN IF c.page = 0 /\ NoUpdateNeeded(c.db_count, total_hits)
       THEN Return(c, md, <<>>, "NO_UPDATE_NEEDED")
       ELSE IF hits = <<>> THEN Return(c, md, c.new_data, "DONE")
       ELSE IF k # 0 THEN Return([c EXCEPT !.found_existing = TRUE], md, data, "DONE")
       ELSE IF c.page >= Ceil(total_hits, limit) THEN Return(c, md, data, "DONE")
       ELSE [c EXCEPT !.new_data = data, !.page = c.page + 1]

\* Mutant of the walk: "page += 1" is missing, the same page is requested
\* again
WalkOnResponseNoAdvance(md, st, q, fd, c, failing) ==
    LET hits == PageHits(fd, c.page)
        total_hits == Len(fd)
        k == IF md = "daily" THEN FirstExisting(st, q, hits, failing) ELSE 0
        data == Appended(c, q, hits, k)
    IN IF c.page = 0 /\ NoUpdateNeeded(c.db_count, total_hits)
       THEN Return(c, md, <<>>, "NO_UPDATE_NEEDED")
       ELSE IF hits = <<>> THEN Return(c, md, c.new_data, "DONE")
       ELSE IF k # 0 THEN Return([c EXCEPT !.found_existing = TRUE], md, data, "DONE")
       ELSE IF Len(hits) < limit THEN Return(c, md, data, "DONE")
       ELSE IF c.page >= Ceil(total_hits, limit) THEN Return(c, md, data, "DONE")
       ELSE [c EXCEPT !.new_data = data]

\* Mutant of the walk: the per-hit existence check is made in both modes
WalkOnResponseAlwaysChecks(md, st, q, fd, c, failing) ==
    LET hits == PageHits(fd, c.page)
        total_hits == Len(fd)
        k == FirstExisting(st, q, hits, failing)
        data == Appended(c, q, hits, k)
    IN IF c.page = 0 /\ NoUpdateNeeded(c.db_count, total_hits)
       THEN Return(c, md, <<>>, "NO_UPDATE_NEEDED")
       ELSE IF hits = <<>> THEN Return(c, md, c.new_data, "DONE")
       ELSE IF k # 0 THEN Return([c EXCEPT !.found_existing = TRUE], md, data, "DONE")
       ELSE IF Len(hits) < limit THEN Return(c, md, data, "DONE")
       ELSE IF c.page >= Ceil(total_hits, limit) THEN Return(c, md, data, "DONE")
       ELSE [c EXCEPT !.new_data = data, !.page = c.page + 1]

\* Mutant of the walk: the page index advances by two
WalkOnResponseSkipsPage(md, st, q, fd, c, failing) ==
    LET hits == PageHits(fd, c.page)
        total_hits == Len(fd)
        k == IF md = "daily" THEN FirstExisting(st, q, hits, failing) ELSE 0
        data == Appended(c, q, hits, k)
    IN IF c.page = 0 /\ NoUpdateNeeded(c.db_count, total_hits)
       THEN Return(c, md, <<>>, "NO_UPDATE_NEEDED")
       ELSE IF hits = <<>> THEN Return(c, md, c.new_data, "DONE")
       ELSE IF k # 0 THEN Return([c EXCEPT !.found_existing = TRUE], md, data, "DONE")
       ELSE IF Len(hits) < limit THEN Return(c, md, data, "DONE")
       ELSE IF c.page >= Ceil(total_hits, limit) THEN Return(c, md, data, "DONE")
       ELSE [c EXCEPT !.new_data = data, !.page = c.page + 2]

\* One iteration of the while loop whose request answered 200
WalkOnResponse(md, st, q, fd, c, failing) ==
    LET hits == PageHits(fd, c.page)
        total_hits == Len(fd)
        k == IF md = "daily" THEN FirstExisting(st, q, hits, failing) ELSE 0
        data == Appended(c, q, hits, k)
    IN IF c.page = 0 /\ NoUpdateNeeded(c.db_count, total_hits)
       THEN Return(c, md, <<>>, "NO_UPDATE_NEEDED")
       ELSE IF hits = <<>> THEN Return(c, md, c.new_data, "DONE")
       ELSE IF k # 0 THEN Return([c EXCEPT !.found_existing = TRUE], md, data, "DONE")
       ELSE IF Len(hits) < limit THEN Return(c, md, data, "DONE")
       ELSE IF c.page >= Ceil(total_hits, limit) THEN Return(c, md, data, "DONE")
       ELSE [c EXCEPT !.new_data = data, !.page = c.page + 1]

\* One iteration whose request failed (non-200, None after the retries, or an
\* exception): break, then "return new_data"
WalkOnFailure(md, c) == Return(c, md, c.new_data, "FAILED")

\* ---------------------------------------------------------------- the store
\* The unique index on itemId rejects the document
DuplicateKey(st, item) == \E r \in st : r.itemId = item.itemId

\* collection.insert_one(item) on a document that is accepted
insert_one(st, item) == st \cup {item}

\* Mutant of the insert: a stored itemId is overwritten (an upsert) and
\* counted as inserted
InsertRecordUpsert(c, st, outcome) ==
    LET item == c.ret[c.idx]
        c1 == [c EXCEPT !.idx = c.idx + 1,
                        !.pc = IF c.idx = Len(c.ret) THEN "stats" ELSE "save"]
    IN IF outcome = "error"
       THEN [c |-> [c1 EXCEPT !.error_count = @ + 1], st |-> st]
       ELSE [c |-> [c1 EXCEPT !.inserted_count = @ + 1],
             st |-> {r \in st : r.itemId # item.itemId} \cup {item}]

\* Mutant of the insert: inserted_count is incremented before insert_one, so
\* a rejected duplicate is counted as inserted too
InsertRecordCountsFirst(c, st, outcome) ==
    LET item == c.ret[c.idx]
        c1 == [c EXCEPT !.idx = c.idx + 1,
                        !.pc = IF c.idx = Len(c.ret) THEN "stats" ELSE "save"]
    IN IF outcome = "error"
       THEN [c |-> [c1 EXCEPT !.error_count = @ + 1], st |-> st]
       ELSE IF DuplicateKey(st, item)
       THEN [c |-> [c1 EXCEPT !.inserted_count = @ + 1, !.duplicate_count = @ + 1],
             st |-> st]
       ELSE [c |-> [c1 EXCEPT !.inserted_count = @ + 1], st |-> insert_one(st, item)]

\* Mutant of the insert: the first store error ends the loop, the remaining
\* records are not attempted
InsertRecordAbortOnError(c, st, outcome) ==
    LET item == c.ret[c.idx]
        c1 == [c EXCEPT !.idx = c.idx + 1,
                        !.pc = IF c.idx = Len(c.ret) THEN "stats" ELSE "save"]
    IN IF outcome = "error"
       THEN [c |-> [c1 EXCEPT !.error_count = @ + 1, !.pc = "stats"], st |-> st]
       ELSE IF DuplicateKey(st, item)
       THEN [c |-> [c1 EXCEPT !.duplicate_count = @ + 1], st |-> st]
       ELSE [c |-> [c1 EXCEPT !.inserted_count = @ + 1], st |-> insert_one(st, item)]

\* One iteration of insert_data_batch's loop; a record without the itemId key
\* is counted as an error and not offered to the store; outcome "error" is any
\* other exception of the store
InsertRecord(c, st, outcome) ==
    LET item == c.ret[c.idx]
        c1 == [c EXCEPT !.idx = c.idx + 1,
                        !.pc = IF c.idx = Len(c.ret) THEN "stats" ELSE "save"]
    IN IF ~HasItemIdKey(item.itemId) \/ outcome = "error"
       THEN [c |-> [c1 EXCEPT !.error_count = @ + 1], st |-> st]
       ELSE IF DuplicateKey(st, item)
       THEN [c |-> [c1 EXCEPT !.duplicate_count = @ + 1], st |-> st]
       ELSE [c |-> [c1 EXCEPT !.inserted_count = @ + 1], st |-> insert_one(st, item)]

\* -------------------------------------------------------------- the batch
\* The four (main.py: five) += of a task under stats_lock
AddSaveResult(md, br, c) ==
    [br EXCEPT !.queries_processed = IF md = "full" THEN @ + 1 ELSE @,
               !.total_records = @ + Len(c.ret),
               !.total_inserted = @ + c.inserted_count,
               !.total_duplicates = @ + c.duplicate_count,
               !.total_errors = @ + c.error_count]

\* Mutant of the except branch: the counters are replaced, not incremented
AddTaskErrorReset(br) == [NewBatchResults EXCEPT !.total_errors = br.total_errors + 1]

\* The except branch of a task: batch_results['total_errors'] += 1
AddTaskError(br) == [br EXCEPT !.total_errors = @ + 1]

\* "Update global statistics" after the batch
AddBatch(md, gs, br, n) ==
    LET queries_with_data ==
            IF md = "full" THEN br.queries_processed
            ELSE IF br.total_records > 0 THEN n ELSE 0
    IN [gs EXCEPT !.total_queries_processed = @ + n,
                  !.total_records = @ + br.total_records,
                  !.total_inserted = @ + br.total_inserted,
                  !.total_duplicates = @ + br.total_duplicates,
                  !.total_errors = @ + br.total_errors,
                  !.queries_updated = @ + queries_with_data,
                  !.queries_up_to_date = @ + (n - queries_with_data)]


\* ------------------------------------------------------------------ actions
\* A task of the batch: its thread runs whatever the coordinator is doing
Running(t) == t \in Tasks

\* The pool of the batch exists and hands submitted tasks to its threads: the
\* coordinator is inside the batch, or an exception is on its way out of it
PoolAlive == cpc \in {"running", "raising"}

\* Mutant of the lock: acquire() never waits
LockAlwaysFree(holder) == TRUE

\* threading.Lock: acquire() goes through when no thread holds the lock
LockFree(holder) == holder = 0

\* The environment may inject n more failures into this run; the concurrent
\* batch runs are single-failure scenarios
FaultBudget == IF Len(all_queries) > 1 THEN 1 ELSE MaxFaults
CanFail(n) == faults + n <= FaultBudget

\* The tasks a pool thread is executing: started and not yet returned
Executing == {t \in Tasks : task[t].pc \notin {"start", "done"}}

\* A thread of the pool picks the task up (at most max_workers run at a time);
\* the task calls the fetcher, which first counts the query's documents
Count(t) ==
    /\ Running(t) /\ task[t].pc = "start"
    /\ PoolAlive
    /\ Cardinality(Executing) < max_workers(batch_queries)
    /\ \E ok \in BOOLEAN :
        /\ ok \/ CanFail(1)
        /\ task' = [task EXCEPT ![t] = CountStep(mode, store, batch_queries[t], @, ok)]
        /\ faults' = IF ok THEN faults ELSE faults + 1
    /\ UNCHANGED <<mode, feed, store, batch_queries, restVars, batch_results, global_stats,
                   stats_lock, print_lock, cpc, run, run_store, prev_faults>>

\* One page request of the walk and the processing of its response
FetchPage(t) ==
    /\ Running(t) /\ task[t].pc = "page"
    /\ LET q == batch_queries[t]
           c == [task[t] EXCEPT !.requested = Append(@, task[t].page)]
           hits == PageHits(feed[q], c.page)
       IN \/ \E failing \in SUBSET {i \in 1..Len(hits) : NeedsCheck(hits[i])} :
               /\ mode = "full" => failing = {}
               /\ CanFail(Cardinality(failing))
               /\ task' = [task EXCEPT ![t] =
                               WalkOnResponse(mode, store, q, feed[q], c, failing)]
               /\ faults' = faults + Cardinality(failing)
          \/ /\ CanFail(1)
             /\ task' = [task EXCEPT ![t] = WalkOnFailure(mode, c)]
             /\ faults' = faults + 1
    /\ UNCHANGED <<mode, feed, store, batch_queries, restVars, batch_results, global_stats,
                   stats_lock, print_lock, cpc, run, run_store, prev_faults>>

\* insert_data_batch: one record of the returned list
InsertOne(t) ==
    /\ Running(t) /\ task[t].pc = "save"
    /\ \E outcome \in {"ok", "error"} :
        LET r == InsertRecord(task[t], store, outcome)
        IN /\ outcome = "error" =>
                 CanFail(1) /\ HasItemIdKey(task[t].ret[task[t].idx].itemId)
           /\ task' = [task EXCEPT ![t] = r.c]
           /\ store' = r.st
           /\ faults' = IF outcome = "ok" THEN faults ELSE faults + 1
    /\ UNCHANGED <<mode, feed, batch_queries, restVars, batch_results, global_stats,
                   stats_lock, print_lock, cpc, run, run_store, prev_faults>>

\* "with stats_lock:" of the try branch or of the except branch; the += that
\* follow read the counters here and write them back when the block is left
AcquireStats(t) ==
    /\ Running(t) /\ task[t].pc \in {"stats", "except"}
    /\ LockFree(stats_lock)
    /\ stats_lock' = t
    /\ task' = [task EXCEPT ![t].pc = IF @ = "stats" THEN "stats_locked"
                                                      ELSE "except_locked",
                            ![t].seen = batch_results]
    /\ UNCHANGED <<mode, feed, store, batch_queries, restVars, batch_results, global_stats,
                   print_lock, cpc, run, run_store, faults, prev_faults>>

\* Mutant of the task: the print follows inside the "with stats_lock:" block,
\* the lock is still held when print_lock is taken
UpdateStatsKeepsLock(t) ==
    /\ Running(t) /\ task[t].pc = "stats_locked"
    /\ batch_results' = AddSaveResult(mode, task[t].seen, task[t])
    /\ stats_lock' = stats_lock
    /\ task' = [task EXCEPT ![t].pc = "print", ![t].counted = TRUE,
                            ![t].seen = NewBatchResults]
    /\ UNCHANGED <<mode, feed, store, batch_queries, restVars, global_stats,
                   print_lock, cpc, run, run_store, faults, prev_faults>>

\* The task adds its save_result to the shared counters and releases the lock
UpdateStats(t) ==
    /\ Running(t) /\ task[t].pc = "stats_locked"
    /\ batch_results' = AddSaveResult(mode, task[t].seen, task[t])
    /\ stats_lock' = 0
    /\ task' = [task EXCEPT ![t].pc = "print", ![t].counted = TRUE,
                            ![t].seen = NewBatchResults]
    /\ UNCHANGED <<mode, feed, store, batch_queries, restVars, global_stats,
                   print_lock, cpc, run, run_store, faults, prev_faults>>

\* An unexpected exception leaves the try block of the task
Raise(t) ==
    /\ Running(t)
    /\ task[t].pc \in {"start", "page", "save", "stats", "print", "nodata"}
    /\ CanFail(1)
    /\ task' = [task EXCEPT ![t].pc = "except", ![t].raised = TRUE]
    /\ faults' = faults + 1
    /\ UNCHANGED <<mode, feed, store, batch_queries, restVars, batch_results, global_stats,
                   stats_lock, print_lock, cpc, run, run_store, prev_faults>>

\* The except branch counts one error and releases the lock
CountTaskError(t) ==
    /\ Running(t) /\ task[t].pc = "except_locked"
    /\ batch_results' = AddTaskError(task[t].seen)
    /\ stats_lock' = 0
    /\ task' = [task EXCEPT ![t].pc = "except_print", ![t].seen = NewBatchResults]
    /\ UNCHANGED <<mode, feed, store, batch_queries, restVars, global_stats,
                   print_lock, cpc, run, run_store, faults, prev_faults>>

\* "with print_lock:" of any of the three prints of a task
AcquirePrint(t) ==
    /\ Running(t) /\ task[t].pc \in {"print", "nodata", "except_print"}
    /\ LockFree(print_lock)
    /\ print_lock' = t
    /\ task' = [task EXCEPT ![t].pc = "printing"]
    /\ UNCHANGED <<mode, feed, store, batch_queries, restVars, batch_results, global_stats,
                   stats_lock, cpc, run, run_store, faults, prev_faults>>

\* Mutant of the except branch: it ends with "raise", the exception leaves
\* the task function and is held by the future
ExceptReturn_Reraise(c) == [c EXCEPT !.pc = "done", !.escaped = c.raised]

\* The task function returns after its last print; the except branch ends
\* without re-raising, so the future holds no exception
ExceptReturn(c) == [c EXCEPT !.pc = "done"]

\* The print is done, the lock released and the task function returns
ReleasePrint(t) ==
    /\ Running(t) /\ task[t].pc = "printing"
    /\ print_lock' = 0
    /\ task' = [task EXCEPT ![t] = ExceptReturn(@)]
    /\ UNCHANGED <<mode, feed, store, batch_queries, restVars, batch_results, global_stats,
                   stats_lock, cpc, run, run_store, faults, prev_faults>>

\* Mutant of the input test: an empty list of queries is not noticed
NoQueriesFoundNever(queries) == FALSE

\* "if not all_queries": the input supplied no query
NoQueriesFound(queries) == queries = <<>>

\* The run reports "No queries found in input.xlsx" and returns before any
\* batch is formed (the finally clause closes the connection)
NoQueries ==
    /\ cpc = "running"
    /\ NoQueriesFound(all_queries)
    /\ cpc' = "no_queries"
    /\ UNCHANGED <<mode, feed, store, batch_queries, restVars, task, batch_results,
                   global_stats, stats_lock, print_lock, run, run_store, faults,
                   prev_faults>>

\* Mutant of the barrier: the coordinator goes on when one future has
\* completed
AnyCompleted == \E t \in Tasks : task[t].pc = "done"

\* The as_completed loop has seen every future and the with block of the
\* pool is left: every task of the batch has returned
AllCompleted == \A t \in Tasks : task[t].pc = "done"

\* The as_completed loop: future.result() raises for a future that holds an
\* exception, and the loop's except clause adds one error under stats_lock
CompletionLoop(br, ts) ==
    [br EXCEPT !.total_errors =
                  @ + Cardinality({t \in DOMAIN ts : ts[t].escaped})]

\* Every future has completed: the pool is left and the batch's counters are
\* added to the run's statistics; the for loop then forms the next outer
\* batch with fresh counters and locks, or the run ends with its summary
Collect ==
    /\ cpc = "running"
    /\ ~NoQueriesFound(all_queries)
    /\ AllCompleted
    /\ global_stats' = AddBatch(mode, global_stats,
                                CompletionLoop(batch_results, task),
                                Len(batch_queries))
    /\ IF batch_num + 1 < total_batches(all_queries)
       THEN /\ batch_num' = batch_num + 1
            /\ batch_queries' = BatchSlice(all_queries, batch_num + 1)
            /\ task' = [t \in 1..Len(BatchSlice(all_queries, batch_num + 1)) |-> NewTask]
            /\ batch_results' = NewBatchResults
            /\ stats_lock' = 0 /\ print_lock' = 0
            /\ cpc' = cpc
       ELSE /\ cpc' = "finished"
            /\ batch_results' = CompletionLoop(batch_results, task)
            /\ UNCHANGED <<batch_num, batch_queries, task, stats_lock, print_lock>>
    /\ UNCHANGED <<mode, feed, store, all_queries, otherVars, run,
                   run_store, faults, prev_faults>>

\* The script is run a second time on the same input, the remote feed unchanged
Rerun ==
    /\ cpc = "finished" /\ run = 1
    /\ run' = run + 1
    /\ task' = [t \in Tasks |-> NewTask]
    /\ batch_results' = NewBatchResults
    /\ global_stats' = NewGlobalStats
    /\ cpc' = "running"
    /\ run_store' = store
    /\ prev_faults' = faults
    /\ faults' = 0
    /\ UNCHANGED <<mode, feed, store, batch_queries, restVars, stats_lock, print_lock>>

\* A step of one of the tasks of the pool
TaskStep ==
    \/ \E t \in Tasks : Count(t)
    \/ \E t \in Tasks : FetchPage(t)
    \/ \E t \in Tasks : InsertOne(t)
    \/ \E t \in Tasks : AcquireStats(t)
    \/ \E t \in Tasks : UpdateStats(t)
    \/ \E t \in Tasks : Raise(t)
    \/ \E t \in Tasks : CountTaskError(t)
    \/ \E t \in Tasks : AcquirePrint(t)
    \/ \E t \in Tasks : ReleasePrint(t)

Next == TaskStep \/ Collect \/ Rerun

Spec == Init /\ [][Next]_vars


\* A batch of BatchTasks queries run through the pool once, from an empty
\* store: the feeds of the queries share their newest items, and a query
\* that is not in the batch has no feed.
InitBatch ==
    /\ \E q \in Queries :
          all_queries = [i \in 1..BatchTasks |-> IF i = 1 THEN q ELSE QA]
    /\ feed \in [Queries -> {FeedOf(n) : n \in 0..BatchMaxFeed}]
    /\ \A q \in Queries :
          feed[q] # <<>> => \E i \in 1..BatchTasks : all_queries[i] = q
    /\ store = {}
    /\ InitCommon

NextBatch == TaskStep \/ Collect

SpecBatch == InitBatch /\ [][NextBatch]_vars


\* A run on whatever the input file holds: no query at all, or one query; the
\* store is any store an earlier run can have left.
InitInput ==
    /\ \E qs \in {<<>>} \cup {<<q>> : q \in Queries} :
        /\ all_queries = qs
        /\ \E n \in 0..MaxFeed :
              feed = [x \in Queries |-> IF qs # <<>> /\ x = qs[1]
                                         THEN FeedOf(n) ELSE <<>>]
    /\ store \in InitStores
    /\ InitCommon

NextInput == NoQueries \/ TaskStep \/ Collect

SpecInput == InitInput /\ [][NextInput]_vars


\* A run on one query more than an outer batch holds: two outer batches, from
\* an empty store.
InitOuter ==
    /\ \E q \in Queries :
          all_queries = [i \in 1..(batch_size + 1) |-> IF i = 1 THEN q ELSE QA]
    /\ feed \in [Queries -> {FeedOf(n) : n \in 0..BatchMaxFeed}]
    /\ store = {}
    /\ InitCommon

NextOuter == TaskStep \/ Collect

SpecOuter == InitOuter /\ [][NextOuter]_vars


\* ------------------------------------------- main.py's request with retries
\* The fetcher of main.py builds the page's URL and calls
\* make_api_request_with_retry
Request(t) ==
    /\ Running(t) /\ task[t].pc = "page" /\ retry.rpc = "idle"
    /\ task' = [task EXCEPT ![t].requested = Append(@, task[t].page),
                            ![t].pc = "request"]
    /\ retry' = NewRetry
    /\ UNCHANGED <<salesStatic, population, norm, sql, batch_results, global_stats,
                   stats_lock, print_lock, cpc, faults>>

\* One attempt of the wrapper: session.get and what the loop does with it
Attempt(t) ==
    /\ Running(t) /\ task[t].pc = "request" /\ retry.rpc = "attempt"
    /\ \E outcome \in GetOutcomes : retry' = RetryAttempt(retry, outcome)
    /\ UNCHANGED <<salesStatic, population, norm, sql, task, batch_results, global_stats,
                   stats_lock, print_lock, cpc, faults>>

\* The wrapper has returned: the fetcher processes the response, or on None
\* prints, breaks and returns what it holds
OnReturn(t) ==
    /\ Running(t) /\ task[t].pc = "request" /\ retry.rpc = "returned"
    /\ LET q == batch_queries[t]
           c == [task[t] EXCEPT !.pc = "page"]
       IN task' = [task EXCEPT ![t] =
                      IF retry.result = "response"
                      THEN WalkOnResponse(mode, store, q, feed[q], c, {})
                      ELSE WalkOnFailure(mode, c)]
    /\ retry' = [retry EXCEPT !.rpc = "idle"]
    /\ UNCHANGED <<salesStatic, population, norm, sql, batch_results, global_stats,
                   stats_lock, print_lock, cpc, faults>>

\* One query processed by main.py, any feed, any store
InitRetry ==
    /\ \E q \in Queries :
        /\ all_queries = <<q>>
        /\ \E n \in 0..MaxFeed :
              feed = [x \in Queries |-> IF x = q THEN FeedOf(n) ELSE <<>>]
    /\ store \in InitStores
    /\ InitCommon
    /\ mode = "full"

NextRetry ==
    \/ \E t \in Tasks : Count(t)
    \/ \E t \in Tasks : Request(t)
    \/ \E t \in Tasks : Attempt(t)
    \/ \E t \in Tasks : OnReturn(t)

SpecRetry == InitRetry /\ [][NextRetry]_vars


\* ------------------------------------------------ a run and its connection
\* An exception is raised in the coordinator's code inside the try block
Fatal ==
    /\ cpc = "running" /\ CanFail(1)
    /\ cpc' = "raising"
    /\ faults' = faults + 1
    /\ UNCHANGED <<mode, feed, store, batch_queries, restVars, task, batch_results,
                   global_stats, stats_lock, print_lock, run, run_store,
                   prev_faults>>

\* The exception leaves the batch: it was raised outside the pool's with
\* block (no task was handed to a thread, or the block was left), or the
\* block's exit has waited for every submitted task; "except Exception"
\* then prints the fatal error
Propagate ==
    /\ cpc = "raising"
    /\ AllCompleted \/ \A t \in Tasks : task[t].pc = "start"
    /\ cpc' = "fatal"
    /\ UNCHANGED <<mode, feed, store, batch_queries, restVars, task, batch_results,
                   global_stats, stats_lock, print_lock, run, run_store, faults,
                   prev_faults>>

\* The try block of the run has been left: by "return" on an empty input,
\* after the summary, or through the except clause
RunEnded == cpc \in {"no_queries", "finished", "fatal"}

\* "finally: mongo_handler.close_connection()"
CloseConnection ==
    /\ RunEnded /\ conn = "open"
    /\ conn' = "closed"
    /\ UNCHANGED <<salesVars, population, retry, norm, sql>>

\* A run on an empty input or on two queries, from an empty store
InitRun ==
    /\ \E qs \in {<<>>} \cup {<<q, QA>> : q \in Queries} : all_queries = qs
    /\ feed \in [Queries -> {FeedOf(n) : n \in 0..BatchMaxFeed}]
    /\ store = {}
    /\ InitCommon

NextRun == NoQueries \/ TaskStep \/ Collect \/ Fatal \/ Propagate \/ CloseConnection

\* The threads of the pool and the coordinator go on while they have a step
SpecRun == InitRun /\ [][NextRun]_vars /\ WF_vars(NextRun)


\* ------------------------------------------------ one hit of the for loop
\* The for loop of either fetcher sets the metadata of one hit and appends it;
\* a date that is not a string raises, which ends the walk
NormalizeHit ==
    /\ norm.pc = "hit"
    /\ norm' = [norm EXCEPT
                   !.out = AddMetadata(norm.md, norm.hit, PageUrl(QA, 0), QA),
                   !.pc = IF DateRaises(norm.hit) THEN "raised" ELSE "appended"]
    /\ UNCHANGED <<salesVars, population, retry, conn, sql>>

InitNormalize ==
    /\ SalesIdle
    /\ population = IdlePopulation /\ retry = IdleRetry /\ sql = IdleSql
    /\ \E md \in Modes, h \in Hits :
          norm = [pc |-> "hit", md |-> md, hit |-> h, out |-> h]

NextNormalize == NormalizeHit

SpecNormalize == InitNormalize /\ [][NextNormalize]_vars


\* ------------------------------------ SQLDBHandler.insert_data_batch
\* The itemIds of the records of a data_list, and of the rows of the table
SqlIds == {1, 2}
SqlItems == {MissingItemId, EmptyItemId} \cup SqlIds
SqlLists == UNION {[1..n -> SqlItems] : n \in 0..MaxRecords}

\* 'itemId' in item and item['itemId']
SqlHasItemId(item) == HasItemIdKey(item) /\ item # EmptyItemId

\* A call of insert_data_batch(data_list) on a table holding rows; pending
\* are the rows the open transaction has added, failed tells how the call
\* failed as a whole
NewSql(data, rows) ==
    [pc |-> "entry", data |-> data, idx |-> 1, rows0 |-> rows, rows |-> rows,
     pending |-> {}, inserted_count |-> 0, duplicate_count |-> 0,
     error_count |-> 0, failed |-> "no",
     result |-> [inserted |-> 0, duplicates |-> 0, errors |-> 0]]

\* result = {"inserted": ..., "duplicates": ..., "errors": ...}; return result
SqlReturn(s) ==
    [s EXCEPT !.pc = "returned",
              !.result = [inserted |-> s.inserted_count,
                          duplicates |-> s.duplicate_count,
                          errors |-> s.error_count]]

\* The outer "except MySQLError": rollback, error_count = len(data_list), and
\* the function goes on to build its result
SqlBatchFailed(s) ==
    SqlReturn([s EXCEPT !.pending = {}, !.error_count = Len(s.data),
                        !.failed = "batch"])

\* "if not data_list" and "connection = self._get_connection()"
SqlEntry(s, connected) ==
    IF s.data = <<>> THEN [s EXCEPT !.pc = "returned"]
    ELSE IF ~connected
    THEN [s EXCEPT !.pc = "returned", !.failed = "no_connection",
                   !.result = [inserted |-> 0, duplicates |-> 0,
                               errors |-> Len(s.data)]]
    ELSE [s EXCEPT !.pc = "cursor"]

\* One iteration of the for loop: INSERT IGNORE of a record that has an
\* itemId, counted by cursor.rowcount; outcome "error" is a MySQLError of
\* the execute
SqlInsertItem(s, outcome) ==
    LET item == s.data[s.idx]
        s1 == [s EXCEPT !.idx = s.idx + 1,
                        !.pc = IF s.idx = Len(s.data) THEN "commit" ELSE "items"]
    IN IF ~SqlHasItemId(item) \/ outcome = "error"
       THEN [s1 EXCEPT !.error_count = @ + 1]
       ELSE IF item \in s.rows \cup s.pending
       THEN [s1 EXCEPT !.duplicate_count = @ + 1]
       ELSE [s1 EXCEPT !.pending = @ \cup {item}, !.inserted_count = @ + 1]

\* connection.commit() makes the pending rows durable
SqlCommitted(s) == SqlReturn([s EXCEPT !.rows = @ \cup s.pending, !.pending = {}])

\* The call is entered: an empty list returns at once, otherwise a connection
\* is taken from the pool or created, which may fail
SqlEnter ==
    /\ sql.pc = "entry"
    /\ \E connected \in BOOLEAN : sql' = SqlEntry(sql, connected)
    /\ UNCHANGED <<salesVars, population, retry, conn, norm>>

\* cursor = connection.cursor(buffered=True), inside the outer try
SqlCursor ==
    /\ sql.pc = "cursor"
    /\ \E ok \in BOOLEAN :
          sql' = IF ok THEN [sql EXCEPT !.pc = "items"] ELSE SqlBatchFailed(sql)
    /\ UNCHANGED <<salesVars, population, retry, conn, norm>>

SqlItem ==
    /\ sql.pc = "items"
    /\ \E outcome \in {"ok", "error"} :
          /\ outcome = "error" => SqlHasItemId(sql.data[sql.idx])
          /\ sql' = SqlInsertItem(sql, outcome)
    /\ UNCHANGED <<salesVars, population, retry, conn, norm>>

\* connection.commit() after the loop: it succeeds, or raises MySQLError and
\* the outer handler rolls back
SqlCommit ==
    /\ sql.pc = "commit"
    /\ \E ok \in BOOLEAN :
          sql' = IF ok THEN SqlCommitted(sql) ELSE SqlBatchFailed(sql)
    /\ UNCHANGED <<salesVars, population, retry, conn, norm>>

\* One call of insert_data_batch, any list of up to MaxRecords records, any
\* table
InitSql ==
    /\ SalesIdle
    /\ population = IdlePopulation /\ retry = IdleRetry /\ norm = IdleNorm
    /\ \E data \in SqlLists, rows \in SUBSET SqlIds : sql = NewSql(data, rows)

NextSql == SqlEnter \/ SqlCursor \/ SqlItem \/ SqlCommit

SpecSql == InitSql /\ [][NextSql]_vars


\* ------------------------------------------------- one call of the fetcher
\* The stores that earlier runs of one query have left
OneQueryStores ==
    {st \in InitStores :
        \E q \in Queries : \A r \in st : r.search_url = PageUrl(q, 0)}

\* One query and one call of the fetcher of either script, any feed, any
\* store left by one query
InitWalk ==
    /\ \E q \in Queries :
        /\ all_queries = <<q>>
        /\ \E n \in 0..MaxFeed :
              feed = [x \in Queries |-> IF x = q THEN FeedOf(n) ELSE <<>>]
    /\ store \in OneQueryStores
    /\ InitCommon

\* update_daily.py requests a page with requests.get, main.py through
\* make_api_request_with_retry
NextWalk ==
    \/ \E t \in Tasks : Count(t)
    \/ \E t \in Tasks : mode = "daily" /\ FetchPage(t)
    \/ \E t \in Tasks : mode = "full" /\ Request(t)
    \/ \E t \in Tasks : mode = "full" /\ Attempt(t)
    \/ \E t \in Tasks : mode = "full" /\ OnReturn(t)

\* The thread running the fetcher goes on while the call has a next step: the
\* store's count and every request return
SpecWalk == InitWalk /\ [][NextWalk]_vars /\ WF_vars(NextWalk)


\* ------------------------------------------------ hits without an itemId
\* The itemId of a hit of the API: absent, empty, or an id
IdValues == {MissingItemId, EmptyItemId, 1}

\* The feeds of up to a page and one hit, in any order of these values
IdFeeds == UNION {[1..n -> IdValues] : n \in 0..(limit + 1)}

\* The stores a run of main.py on query q can have left of such hits: a hit
\* with an empty itemId has the key and is accepted once by insert_one
IdStores(q) == SUBSET {Normalize(i, PageUrl(q, 0)) : i \in {EmptyItemId, 1}}

\* One query whose feed has hits without an itemId, processed by either
\* script: fetched, then saved
InitItemIds ==
    /\ \E q \in Queries :
        /\ all_queries = <<q>>
        /\ \E fd \in IdFeeds :
              feed = [x \in Queries |-> IF x = q THEN fd ELSE <<>>]
        /\ store \in IdStores(q)
    /\ InitCommon

NextItemIds ==
    \/ \E t \in Tasks : Count(t)
    \/ \E t \in Tasks : FetchPage(t)
    \/ \E t \in Tasks : InsertOne(t)

SpecItemIds == InitItemIds /\ [][NextItemIds]_vars


\* ------------------------------------------------ the population scripts
\* population_scraper.py saves one record: insert_population_record
SaveScraper ==
    /\ population.script = "population_scraper" /\ population.saves < MaxSaves
    /\ \E rec \in PopRecords, ok \in BOOLEAN :
          population' = [population EXCEPT
              !.rows = IF ok THEN insert_population_record(@, rec) ELSE @,
              !.saves = @ + 1, !.last = rec, !.last_ok = ok,
              !.existed = KeyExists(population.rows, rec)]
    /\ UNCHANGED <<salesVars, retry, conn, norm, sql>>

\* fetch_all_populations.py saves one record of its list:
\* save_population_records
SaveFetchAll ==
    /\ population.script = "fetch_all_populations" /\ population.saves < MaxSaves
    /\ \E rec \in PopRecords, ok \in BOOLEAN :
          population' = [save_population_record(population, rec, ok) EXCEPT
              !.saves = @ + 1, !.last = rec, !.last_ok = ok,
              !.existed = KeyExists(population.rows, rec)]
    /\ UNCHANGED <<salesVars, retry, conn, norm, sql>>

InitPopulation ==
    /\ SalesIdle
    /\ \E sc \in {"population_scraper", "fetch_all_populations"} :
          population = [IdlePopulation EXCEPT !.script = sc]
    /\ retry = IdleRetry
    /\ norm = IdleNorm
    /\ sql = IdleSql

NextPopulation == SaveScraper \/ SaveFetchAll

SpecPopulation == InitPopulation /\ [][NextPopulation]_vars


\* ------------------------------------------------- vocabulary of the claims
\* Some stored document has this itemId, whichever query stored it
InStore(st, item_id) == \E r \in st : r.itemId = item_id

\* The itemIds of a list of records, in order
ItemIds(recs) == [i \in 1..Len(recs) |-> recs[i].itemId]

\* Position in the feed of the first item satisfying P (0 when none does)
FirstPos(fd, P(_)) ==
    LET ps == {i \in 1..Len(fd) : P(fd[i])}
    IN IF ps = {} THEN 0 ELSE CHOOSE i \in ps : \A j \in ps : i <= j

\* The pages 0, 1, ..., p
PagesUpTo(p) == [i \in 1..(p + 1) |-> i - 1]

\* The query and the feed of task t
QueryOf(t) == batch_queries[t]
FeedOfTask(t) == feed[batch_queries[t]]

\* The fetcher of task t has just returned: nothing of its result is saved yet
JustReturned(t) ==
    /\ task[t].ended # "NONE" /\ task[t].idx = 1
    /\ task[t].pc \in {"save", "nodata", "done"} /\ ~task[t].raised

\* The walk of t ran to its end in daily mode with the count gate passed and
\* no failure injected, from the store the run started with
DailyWalkDone(t) ==
    /\ mode = "daily" /\ JustReturned(t) /\ task[t].ended = "DONE"
    /\ faults = 0 /\ store = run_store
    /\ task[t].db_count < Len(FeedOfTask(t))

\* C1 as stated: in daily mode, when the first k items of the feed are not in
\* the store and item k+1 is in the store (under whichever query), the walk
\* returns exactly the first k items, in feed order.
C1_AsStated ==
    DailyWalkDone(1) =>
        LET fd == FeedOfTask(1)
            LAMBDA_stored(i) == InStore(run_store, i)
            p == FirstPos(fd, LAMBDA_stored)
        IN p # 0 => ItemIds(task[1].ret) = SubSeq(fd, 1, p - 1)

\* C1 (amended): in daily mode, when the first k items of the feed are not in
\* the store and item k+1 is stored under a search_url that contains this
\* query's pattern "query=<quoted query>", and no page request or existence
\* check fails, the walk returns exactly the first k items, in feed order.
C1_BoundaryStop ==
    DailyWalkDone(1) =>
        LET fd == FeedOfTask(1)
            LAMBDA_stored(i) == InStore(run_store, i)
            p == FirstPos(fd, LAMBDA_stored)
        IN (p # 0 /\ ItemExistsForQuery(run_store, QueryOf(1), fd[p]))
              => ItemIds(task[1].ret) = SubSeq(fd, 1, p - 1)

\* C1 witness: the boundary lies on a later page and the walk returned the
\* k >= limit new items before it
C1_Witness ==
    /\ DailyWalkDone(1) /\ task[1].found_existing
    /\ Len(task[1].ret) >= limit
    /\ ~InStore(run_store, FeedOfTask(1)[1])
    /\ ItemExistsForQuery(run_store, QueryOf(1), FeedOfTask(1)[Len(task[1].ret) + 1])

\* C2: once a hit is found to exist, no later page is requested: with k items
\* returned before that hit, the pages requested are exactly 0 .. k \div limit.
C2_PageEconomy ==
    \A t \in Tasks :
        task[t].found_existing =>
            task[t].requested = PagesUpTo(Len(task[t].ret) \div limit)

\* C2 witness: the walk stopped at an existing hit while the feed had further
\* pages, which were not requested
C2_Witness ==
    /\ task[1].found_existing
    /\ Len(FeedOfTask(1)) > Len(task[1].requested) * limit

CleanWalkInserted ==
    /\ task[1].pc = "done" /\ task[1].ended = "DONE" /\ faults = 0

\* C4 as stated: from any store, when the walk ends without a failure and its
\* records are inserted, every item of the query's feed is in the store.
C4_AsStated ==
    (task[1].pc = "done" /\ task[1].ended \in {"DONE", "NO_UPDATE_NEEDED"}
        /\ faults = 0)
    => \A i \in 1..Len(FeedOfTask(1)) : InStore(store, FeedOfTask(1)[i])

\* C4 (amended): when the walk is not short-circuited by the count gate, ends
\* without a failure and its records are inserted, then in full mode every
\* item of the feed is in the store, and in daily mode every item of the feed
\* that is newer than the first hit the existence check finds stored is.
C4_NoMissedRecords ==
    CleanWalkInserted =>
        LET fd == FeedOfTask(1)
            LAMBDA_exists(i) == ItemExistsForQuery(run_store, QueryOf(1), i)
            p == FirstPos(fd, LAMBDA_exists)
        IN \A i \in 1..Len(fd) :
              (mode = "full" \/ p = 0 \/ i < p) => InStore(store, fd[i])

\* C4 witness: a feed of several pages was walked to its end and items that
\* the store did not hold before are now in it
C4_Witness ==
    /\ CleanWalkInserted
    /\ Len(task[1].requested) >= 2
    /\ task[1].inserted_count >= limit
    /\ \A i \in 1..Len(FeedOfTask(1)) : InStore(store, FeedOfTask(1)[i])

\* No two stored documents share an itemId
UniqueItemIds == \A r1, r2 \in store : r1.itemId = r2.itemId => r1 = r2

\* A step of insert_data_batch keeps every stored document, and on an itemId
\* that is already stored it stores nothing, counts no insert and (unless the
\* store call itself failed) counts one duplicate
RejectsDuplicates ==
    \A t \in Tasks :
        (task[t].pc = "save" /\ task'[t].idx = task[t].idx + 1) =>
            LET item == task[t].ret[task[t].idx]
            IN /\ store \subseteq store'
               /\ InStore(store, item.itemId) =>
                    /\ store' = store
                    /\ task'[t].inserted_count = task[t].inserted_count
                    /\ faults' = faults =>
                         task'[t].duplicate_count = task[t].duplicate_count + 1

\* C5: under every interleaving of the insert_data_batch calls of the tasks,
\* no two stored records share an itemId; an insert of a stored itemId is
\* rejected, counted in duplicates, and leaves the stored record unchanged.
C5_GlobalUniqueness == []UniqueItemIds /\ [][RejectsDuplicates]_vars

\* C5 witness: two tasks fetched the same item, one insert was rejected as a
\* duplicate and the store holds the item once
C5_Witness ==
    /\ \E t \in Tasks : task[t].duplicate_count > 0
    /\ \E u \in Tasks : task[u].inserted_count > 0
    /\ Cardinality(store) = 1

RECURSIVE SeqSum(_)
SeqSum(ns) == IF ns = <<>> THEN 0 ELSE Head(ns) + SeqSum(Tail(ns))

\* The sums, over the tasks whose save_result was added to the counters, of
\* the per-query values
SumRecords == SeqSum([t \in Tasks |-> IF task[t].counted THEN Len(task[t].ret) ELSE 0])
SumInserted == SeqSum([t \in Tasks |-> IF task[t].counted THEN task[t].inserted_count ELSE 0])
SumDuplicates == SeqSum([t \in Tasks |-> IF task[t].counted THEN task[t].duplicate_count ELSE 0])
SumErrors == SeqSum([t \in Tasks |-> IF task[t].counted THEN task[t].error_count ELSE 0])
NumRaised == Cardinality({t \in Tasks : task[t].pc \in {"except_print", "printing", "done"}
                                        /\ task[t].raised})

\* Every query that returned records went through insert and the counters
SavedAndCounted(t) ==
    task[t].ret # <<>> => (task[t].counted /\ task[t].idx = Len(task[t].ret) + 1)

\* C7: whatever the interleaving of the tasks, the batch's total_inserted,
\* total_duplicates and total_errors (and total_records) equal the sums of the
\* per-query values: at every moment over the tasks that have added theirs,
\* and over all tasks once the batch has ended.
C7_ConcurrentStats ==
    (\A t \in Tasks : ~task[t].raised) =>
        /\ batch_results.total_records = SumRecords
        /\ batch_results.total_inserted = SumInserted
        /\ batch_results.total_duplicates = SumDuplicates
        /\ batch_results.total_errors = SumErrors
        /\ cpc = "finished" =>
            /\ \A t \in Tasks : SavedAndCounted(t)
            /\ global_stats.total_inserted = SumInserted
            /\ global_stats.total_duplicates = SumDuplicates
            /\ global_stats.total_errors = SumErrors

\* C7 witness: the batch has ended, at least two tasks have added their
\* results, and both an insert and a duplicate were counted
C7_Witness ==
    /\ cpc = "finished" /\ \A t \in Tasks : ~task[t].raised
    /\ Cardinality({t \in Tasks : task[t].counted}) >= 2
    /\ batch_results.total_inserted >= 1
    /\ batch_results.total_duplicates >= 1

\* C8: when a task of the batch has raised, every other query is still
\* fetched, inserted and counted, the totals hold exactly the other queries'
\* records, inserts and duplicates, and the raising task has added one error.
C8_FailureIsolation ==
    (cpc = "finished" /\ \E t \in Tasks : task[t].raised) =>
        /\ \A u \in Tasks : ~task[u].raised =>
              /\ SavedAndCounted(u)
              /\ \A i \in 1..Len(task[u].ret) : InStore(store, task[u].ret[i].itemId)
        /\ batch_results.total_records = SumRecords
        /\ batch_results.total_inserted = SumInserted
        /\ batch_results.total_duplicates = SumDuplicates
        /\ batch_results.total_errors = SumErrors + NumRaised

\* C8 witness: one task raised, a sibling fetched and inserted its records,
\* and the batch has ended
C8_Witness ==
    /\ cpc = "finished"
    /\ \E t, u \in Tasks :
          /\ task[t].raised /\ ~task[t].counted
          /\ ~task[u].raised /\ task[u].counted /\ task[u].inserted_count >= 1

\* C9 as stated: when a page request fails after at least one page was
\* accumulated, none of the records of that call are persisted.
C9_AsStated ==
    (task[1].ended = "FAILED" /\ Len(task[1].requested) >= 2)
        => (task[1].inserted_count = 0 /\ store = run_store)

\* What the caller of the fetcher gets: the returned list, and nothing else
Outcome(t) == task[t].ret

\* C10 as stated: the outcome of a query that failed differs from the outcome
\* of a query that the count gate short-circuited.
C10_AsStated ==
    \A t, u \in Tasks :
        (task[t].ended = "FAILED" /\ task[u].ended = "NO_UPDATE_NEEDED")
            => Outcome(t) # Outcome(u)

\* The count of task t's query returned the error value
CountFailed(t) == task[t].db_count = CountError

\* Task u went through fetch, insert and the counters without any failure
ProcessedNormally(u) ==
    /\ task[u].pc = "done" /\ ~task[u].raised
    /\ task[u].ended \in {"DONE", "NO_UPDATE_NEEDED"}
    /\ task[u].requested # <<>>
    /\ SavedAndCounted(u)
    /\ task[u].error_count = 0
    /\ \A i \in 1..Len(task[u].ret) : InStore(store, task[u].ret[i].itemId)

\* C11: when the count of a query returns the error value, the fetcher makes
\* no page request, returns an empty list without raising, nothing is inserted
\* for the query, and the other queries of the batch are processed normally.
C11_CountFailureSkips ==
    \A t \in Tasks :
        CountFailed(t) =>
            /\ task[t].requested = <<>>
            /\ task[t].ret = <<>> /\ task[t].ended = "FAILED"
            /\ task[t].pc \in {"nodata", "printing", "done"} /\ ~task[t].raised
            /\ task[t].idx = 1 /\ task[t].inserted_count = 0
            /\ task[t].duplicate_count = 0 /\ task[t].error_count = 0
            /\ cpc = "finished" => \A u \in Tasks \ {t} : ProcessedNormally(u)

\* C11 witness: the count of one query failed, the batch has ended and a
\* sibling query fetched and inserted its records
C11_Witness ==
    /\ cpc = "finished"
    /\ \E t, u \in Tasks :
          /\ CountFailed(t) /\ task[t].pc = "done"
          /\ ~CountFailed(u) /\ task[u].inserted_count >= 1

\* C12 as stated: every query whose count failed has added one to the batch's
\* error counter, so the reported errors are at least the number of them.
C12_AsStated ==
    cpc = "finished" =>
        global_stats.total_errors >= Cardinality({t \in Tasks : CountFailed(t)})

\* C13 as stated: every record of the list the fetcher returns has an itemId
\* that was not in the store when the call started.
C13_AsStated ==
    \A i \in 1..Len(task[1].ret) : ~InStore(run_store, task[1].ret[i].itemId)

\* The small-feed scenario: the query's stored count is 0, its feed holds
\* between 1 and limit - 1 items, none of them stored, and nothing fails
SmallFeedScenario ==
    /\ batch_queries # <<>>
    /\ Len(FeedOfTask(1)) > 0 /\ Len(FeedOfTask(1)) < limit
    /\ CountDocuments(run_store, QueryOf(1)) = 0
    /\ \A i \in 1..Len(FeedOfTask(1)) : ~InStore(run_store, FeedOfTask(1)[i])
    /\ faults = 0

Attempted(c) == c.inserted_count + c.duplicate_count + c.error_count

\* insert_data_batch of task t has returned its result
InsertReturned(t) ==
    task[t].pc \in {"stats", "stats_locked", "print", "printing", "done"}
        /\ task[t].ret # <<>> /\ ~task[t].raised

\* Every record attempted so far is counted exactly once, and when the insert
\* has returned every record of the list was attempted
CountsAddUp ==
    \A t \in Tasks :
        /\ Attempted(task[t]) = task[t].idx - 1
        /\ InsertReturned(t) => Attempted(task[t]) = Len(task[t].ret)

\* One iteration of the insert loop attempts the next record whatever happened
\* to the records before it, adds one to exactly one counter, and goes on to
\* the next record unless this was the last: a document the unique index
\* rejects is counted in duplicates and not in errors, an accepted one is
\* stored and counted in inserted, a failed store call is counted in errors.
AttemptsIndependently ==
    \A t \in Tasks :
        (task[t].pc = "save" /\ task'[t] # task[t] /\ task'[t].pc # "except") =>
            LET c == task[t]
                d == task'[t]
                item == c.ret[c.idx]
            IN /\ d.idx = c.idx + 1
               /\ d.pc = IF c.idx < Len(c.ret) THEN "save" ELSE "stats"
               /\ Attempted(d) = Attempted(c) + 1
               /\ d.inserted_count >= c.inserted_count
               /\ d.duplicate_count >= c.duplicate_count
               /\ d.error_count >= c.error_count
               /\ (faults' = faults /\ DuplicateKey(store, item)) =>
                     (d.duplicate_count = c.duplicate_count + 1 /\ store' = store)
               /\ (faults' = faults /\ ~DuplicateKey(store, item)) =>
                     (d.inserted_count = c.inserted_count + 1 /\ item \in store')
               /\ faults' # faults =>
                     (d.error_count = c.error_count + 1 /\ store' = store)

\* C15: insert_data_batch attempts every record of its list whatever happened
\* to the earlier ones, counts each record in exactly one of inserted /
\* duplicates / errors (their sum is the number of records), and counts a
\* duplicate in duplicates, never in errors.
C15_InsertIndependent == []CountsAddUp /\ [][AttemptsIndependently]_vars

\* C15 witness: one call of the insert met an accepted record, a duplicate and
\* a store error, and records were attempted after the error
C15_Witness ==
    \E t \in Tasks :
        /\ InsertReturned(t)
        /\ task[t].inserted_count >= 1 /\ task[t].duplicate_count >= 1
        /\ task[t].error_count >= 1
        /\ ~InStore(store, task[t].ret[1].itemId)

\* test_data_integrity's comparison for the query of task t: the API's
\* totalHits against the stored count of the query
IntegrityPass(t) == Len(FeedOfTask(t)) = CountDocuments(store, QueryOf(t))

\* C16 as stated: from an empty store, once main.py's fetch + insert cycle has
\* ended without any error for every input query, the stored count of each
\* input query equals the API's total_hits of that query.
C16_AsStated ==
    (/\ mode = "full" /\ run_store = {} /\ cpc = "finished"
     /\ faults = 0 /\ global_stats.total_errors = 0)
    => \A t \in Tasks : IntegrityPass(t)

\* The stored records whose originating query is q: those saved from one of
\* the pages of q's own walk
StoredFor(st, q) ==
    {r \in st : \E p \in 0..MaxFeed : r.search_url = PageUrl(q, p)}

\* C17 as stated: a successful count of query q returns the number of stored
\* records whose originating query is q, counting no record stored for a
\* different query such as one that has q as a prefix.
C17_AsStated ==
    (task[1].pc = "page" /\ task[1].requested = <<>>) =>
        task[1].db_count = Cardinality(StoredFor(store, QueryOf(1)))

\* C18 as stated: the existence check of the daily walk answers true exactly
\* for the itemIds some stored record has, whichever query stored it: every
\* hit it answered false for (the returned ones) is absent from the store, and
\* the hit it answered true for (the boundary) is present.
C18_AsStated ==
    DailyWalkDone(1) =>
        /\ \A i \in 1..Len(task[1].ret) :
              ~InStore(run_store, task[1].ret[i].itemId)
        /\ task[1].found_existing =>
              InStore(run_store, FeedOfTask(1)[Len(task[1].ret) + 1])

\* C19: when the input supplies no queries, the run reports it and ends: no
\* batch is formed (no task, hence no page request and no insert), the final
\* summary of a completed run is never reached, and the store and every
\* counter stay as they were.
C19_NoQueries ==
    batch_queries = <<>> =>
        /\ cpc \in {"running", "no_queries"}
        /\ DOMAIN task = {}
        /\ store = run_store
        /\ batch_results = NewBatchResults /\ global_stats = NewGlobalStats
        /\ faults = 0

\* C19 witness: a run without queries has reported and ended, the store
\* holding documents of earlier runs
C19_Witness ==
    /\ batch_queries = <<>> /\ cpc = "no_queries"
    /\ store # {} /\ store = run_store

\* The input queries whose fetch returned at least one record
QueriesWithData == {t \in Tasks : task[t].ret # <<>>}

\* C20 as stated: the report's "queries updated" (queries_updated of
\* update_daily, queries_processed of main) equals the number of input
\* queries whose fetch returned at least one new record, whatever the mix of
\* updated and non-updated queries in the batch (stated for the runs in which
\* nothing fails).
C20_AsStated ==
    (cpc = "finished" /\ faults = 0) =>
        global_stats.queries_updated = Cardinality(QueriesWithData)

\* C21: each query's records are inserted by the query's own task, right after
\* its walk has returned them and before the task completes, and the insert of
\* a task never waits for another task: whenever a task holds records to
\* save, its next insert can be taken, whatever the other tasks are doing.
C21_ImmediatePersistence ==
    \A t \in Tasks :
        /\ (task[t].ended # "NONE" /\ task[t].ret # <<>> /\ ~task[t].raised) =>
              task[t].pc \in {"save", "stats", "stats_locked", "print",
                               "printing", "done"}
        /\ task[t].pc = "save" => ENABLED InsertOne(t)
        /\ (task[t].pc = "done" /\ ~task[t].raised) =>
              task[t].idx = Len(task[t].ret) + 1

\* C21 witness: one task has inserted its records and completed while the
\* fetch of another task of the batch has not ended
C21_Witness ==
    \E t, u \in Tasks :
        /\ task[t].pc = "done" /\ task[t].inserted_count >= 1
        /\ task[u].pc \in {"start", "page"} /\ task[u].ended = "NONE"

\* C22: at every moment of a run, the number of query tasks executing
\* concurrently is at most the smaller of the number of queries of the current
\* outer batch and the pool's cap W.
C22_BoundedConcurrency ==
    /\ Cardinality(Executing) <= Len(batch_queries)
    /\ Cardinality(Executing) <= W

\* C22 witness: the last outer batch holds fewer queries than the cap, and all
\* of them are executing
C22_Witness ==
    /\ batch_num = 1 /\ Len(batch_queries) < W
    /\ Cardinality(Executing) = Len(batch_queries)

\* C23 as stated: after either script has saved a population record whose
\* compound key was already in the table, the table holds exactly one row of
\* that key and the row carries the newly supplied grade_count.
C23_AsStated ==
    (population.last_ok /\ population.existed) =>
        /\ Cardinality({r \in population.rows : r.key = population.last.key}) = 1
        /\ \A r \in population.rows :
              r.key = population.last.key =>
                  r.grade_count = population.last.grade_count

\* C24 as stated: with total_hits the (constant) size of the feed, the fetcher
\* never requests a page whose index is at least ceil(total_hits / limit).
C24_AsStated ==
    \A t \in Tasks :
        Len(FeedOfTask(t)) > 0 =>
            \A i \in 1..Len(task[t].requested) :
                task[t].requested[i] < Ceil(Len(FeedOfTask(t)), limit)

\* C25: within one fetcher call the pages requested are 0, 1, 2, ... with no
\* index skipped or repeated, and when the walk is about to request the next
\* page every hit of the pages requested so far has been processed (it is in
\* the result being built, in feed order).
C25_PageOrder ==
    \A t \in Tasks :
        /\ \A i \in 1..Len(task[t].requested) : task[t].requested[i] = i - 1
        /\ task[t].pc = "page" =>
              /\ task[t].page = Len(task[t].requested)
              /\ ItemIds(task[t].new_data) =
                     SubSeq(FeedOfTask(t), 1, limit * Len(task[t].requested))

\* C25 witness: a walk that requested three pages and processed two full ones
C25_Witness ==
    /\ batch_queries # <<>>
    /\ task[1].requested = <<0, 1, 2>>
    /\ Len(task[1].ret) = 2 * limit

\* The pages of t's walk whose request was answered
FetchedPages(t) ==
    IF task[t].ended = "FAILED" THEN Len(task[t].requested) - 1
    ELSE Len(task[t].requested)

BarrierStep ==
    batch_queries' # batch_queries \/ batch_num' # batch_num =>
        /\ \A t \in Tasks : task[t].pc = "done"
        /\ batch_num' = batch_num + 1
        /\ global_stats' =
              AddBatch(mode, global_stats, batch_results, Len(batch_queries))
        /\ \A t \in 1..Len(batch_queries') : task'[t].pc = "start"

\* While a task of the batch has not completed, the tasks' steps leave the
\* outer batch as it is
TaskStaysInBatch ==
    (task' # task /\ \E t \in Tasks : task[t].pc # "done") =>
        batch_num' = batch_num /\ batch_queries' = batch_queries

\* C27: no task of outer batch b+1 starts before every task of outer batch b
\* has completed and the results of batch b are added to the global
\* statistics.
C27_OuterBarrier == [][BarrierStep /\ TaskStaysInBatch]_vars

\* C27 witness: a task of the second outer batch has started, the first
\* batch's queries being counted in the global statistics
C27_Witness ==
    /\ batch_num = 1
    /\ \E t \in Tasks : task[t].pc \notin {"start", "done"}
    /\ global_stats.total_queries_processed = batch_size

\* A step that changes the batch's counters is the step of the task holding
\* stats_lock, inside its "with stats_lock:" block
MutatesUnderLock ==
    batch_results' # batch_results =>
        /\ stats_lock \in Tasks
        /\ task[stats_lock].pc \in {"stats_locked", "except_locked"}
        /\ task'[stats_lock] # task[stats_lock]
        /\ \A u \in Tasks \ {stats_lock} : task'[u] = task[u]

\* The counters are added to the global statistics when every task has
\* completed and no task holds the lock
ReadAfterCompletion ==
    global_stats' # global_stats =>
        /\ \A t \in Tasks : task[t].pc = "done"
        /\ stats_lock = 0
        /\ global_stats' =
              AddBatch(mode, global_stats, batch_results, Len(batch_queries))

\* Once read, the counters of the batch stay as they are
NoLaterMutation == cpc = "finished" => batch_results' = batch_results

\* C28: the shared counters batch_results are only changed by a task holding
\* stats_lock, the coordinator reads them into the global statistics only
\* after all tasks of the batch have completed, and no task changes them
\* afterwards.
C28_StatsDiscipline ==
    [][MutatesUnderLock /\ ReadAfterCompletion /\ NoLaterMutation]_vars

\* C28 witness: a task is inside its locked block after another task has
\* added its results to the counters
C28_Witness ==
    \E t, u \in Tasks :
        /\ t # u /\ stats_lock = t /\ task[t].pc = "stats_locked"
        /\ task[u].counted /\ batch_results.total_records > 0

\* The itemIds the tasks of the batch offered to the store
Offered == UNION {{task[t].ret[i].itemId : i \in 1..Len(task[t].ret)} : t \in Tasks}

\* Sums of the save results over the tasks of the batch
AllInserted == SeqSum([t \in Tasks |-> task[t].inserted_count])
AllDuplicates == SeqSum([t \in Tasks |-> task[t].duplicate_count])
AllReturned == SeqSum([t \in Tasks |-> Len(task[t].ret)])

\* C29: when the tasks of a concurrent batch, started on an empty store,
\* return overlapping records (the same query twice, or queries sharing
\* items), then in every interleaving without an injected failure each
\* distinct itemId offered is in the store exactly once, the inserts summed
\* over the tasks equal the number of distinct itemIds, and every other
\* offered record is counted as a duplicate.
C29_ConcurrentWritesOnce ==
    (cpc = "finished" /\ faults = 0) =>
        /\ UniqueItemIds
        /\ {r.itemId : r \in store} = Offered
        /\ AllInserted = Cardinality(Offered)
        /\ AllDuplicates = AllReturned - Cardinality(Offered)

\* C29 witness: two tasks of the same query returned the same item; one
\* inserted it and the other counted a duplicate
C29_Witness ==
    /\ cpc = "finished" /\ faults = 0
    /\ \E t, u \in Tasks :
          /\ t # u /\ QueryOf(t) = QueryOf(u)
          /\ task[t].ret # <<>> /\ ItemIds(task[t].ret) = ItemIds(task[u].ret)
          /\ task[t].inserted_count = 1 /\ task[u].duplicate_count = 1

\* The attempts of the wrapper's current or last call that did not give 200
FailedAttempts == {i \in 1..Len(retry.outcomes) : retry.outcomes[i] # "200"}

\* C30: a call of make_api_request_with_retry makes at most 3 attempts, makes
\* none after a 200 and returns that response, returns None exactly when
\* three attempts were made and none gave 200, and on None the fetcher ends
\* the walk of the query as failed, returning what it holds without raising.
C30_BoundedRetry ==
    /\ Len(retry.outcomes) <= MaxAttempts
    /\ \A i \in 1..(Len(retry.outcomes) - 1) : retry.outcomes[i] # "200"
    /\ retry.result = "response" <=>
          (retry.outcomes # <<>> /\ retry.outcomes[Len(retry.outcomes)] = "200")
    /\ retry.result = "None" <=> Cardinality(FailedAttempts) = MaxAttempts
    /\ retry.rpc = "attempt" <=> retry.result = "pending"
    /\ \A t \in Tasks :
          (retry.rpc = "idle" /\ retry.result = "None") =>
              /\ task[t].ended = "FAILED" /\ ~task[t].raised
              /\ task[t].pc \in {"save", "done"}
              /\ task[t].ret = task[t].new_data

\* C30 witness: the request of the second page failed three times in the
\* three ways an attempt can fail, and the fetcher returned
C30_Witness ==
    /\ retry.rpc = "idle" /\ retry.result = "None"
    /\ retry.outcomes = <<"non200", "Timeout", "ConnectionError">>
    /\ task[1].requested = <<0, 1>> /\ task[1].ended = "FAILED"

\* The fetcher call of t is in a terminal state
Terminal(t) == task[t].ended \in {"DONE", "NO_UPDATE_NEEDED", "FAILED"}

\* The page requests of a call are bounded by the size of the feed
BoundedRequests ==
    \A t \in Tasks :
        Len(task[t].requested) <= Ceil(Len(FeedOfTask(t)), limit) + 1

\* A step that ends an iteration of the while loop either leaves the loop or
\* has increased the page index by one
ExitsOrAdvances ==
    \A t \in Tasks :
        (/\ task[t].pc \in {"page", "request"}
         /\ task'[t] # task[t] /\ task'[t].pc # "request") =>
            \/ Terminal(t)'
            \/ task'[t].pc = "page" /\ task'[t].page = task[t].page + 1

\* C31: every call of the fetcher reaches DONE, NO_UPDATE_NEEDED or FAILED
\* after a bounded number of page requests, whatever the feed, the store and
\* the outcomes of the requests; each iteration of its loop exits or
\* increases the page index by one.
C31_WalkTerminates ==
    /\ <>(\A t \in Tasks : Terminal(t))
    /\ []BoundedRequests
    /\ [][ExitsOrAdvances]_vars

\* C31 witness: a call ended DONE after three page requests in daily mode
C31_Witness ==
    /\ mode = "daily" /\ task[1].ended = "DONE"
    /\ Len(task[1].requested) = 3 /\ faults = 0

\* No task is inside a fetch or an insert
NoTaskAtWork == \A t \in Tasks : task[t].pc \in {"start", "done"}

\* C32: every run that connected closes the MongoDB connection (on an empty
\* input, after a fatal exception in the batch loop, and after the summary),
\* and once it is closed no task fetches or inserts: no task is at work, and
\* the tasks and the store stay as they are.
C32_ConnectionClosed ==
    /\ <>(conn = "closed")
    /\ [](conn = "closed" => RunEnded /\ NoTaskAtWork)
    /\ [][conn = "closed" => task' = task /\ store' = store]_vars

\* C32 witness: the connection is closed after a fatal exception that was
\* raised while the tasks of the batch were running
C32_Witness ==
    /\ conn = "closed" /\ cpc = "fatal"
    /\ store # {}
    /\ \A t \in Tasks : task[t].pc = "done"

\* The fields the for loop sets on a hit
SetFields(md, hit) ==
    {"search_url", "Verified"}
        \cup (IF md = "full" THEN {"search_query"} ELSE {})
        \cup (IF "date" \in DOMAIN hit THEN {"date_normal"} ELSE {})

\* p is the part of s before its first T
BeforeFirstT(p, s) ==
    /\ Len(p) <= Len(s) /\ p = SubSeq(s, 1, Len(p))
    /\ \A i \in 1..Len(p) : p[i] # "T"
    /\ Len(p) = Len(s) \/ s[Len(p) + 1] = "T"

\* C33: the record appended for a hit has Verified = true exactly when the
\* hit has a cardId that is neither empty nor null; when the hit has a date,
\* date_normal is the part of the date before its first T; every other field
\* of the hit is unchanged and only search_url (and search_query in main.py)
\* is added.
C33_Normalizer ==
    norm.pc = "appended" =>
        /\ norm.out["Verified"] = Bool(TRUE) <=>
              /\ "cardId" \in DOMAIN norm.hit
              /\ norm.hit["cardId"] \notin {Null, Str(<<>>)}
        /\ norm.out["Verified"] \in {Bool(TRUE), Bool(FALSE)}
        /\ "date" \in DOMAIN norm.hit =>
              /\ norm.out["date_normal"].kind = "str"
              /\ BeforeFirstT(norm.out["date_normal"].s, norm.hit["date"].s)
        /\ DOMAIN norm.out = DOMAIN norm.hit \cup SetFields(norm.md, norm.hit)
        /\ \A k \in DOMAIN norm.hit \ SetFields(norm.md, norm.hit) :
              norm.out[k] = norm.hit[k]

\* C33 witness: a hit with an empty cardId, a stale Verified flag and a date
\* with a time part was appended
C33_Witness ==
    /\ norm.pc = "appended"
    /\ "cardId" \in DOMAIN norm.hit /\ norm.hit["cardId"] = Str(<<>>)
    /\ "Verified" \in DOMAIN norm.hit
    /\ "date" \in DOMAIN norm.hit /\ norm.hit["date"] = Str(<<"d", "T", "d">>)
    /\ norm.out["date_normal"] = Str(<<"d">>)

\* C34: no thread holds stats_lock and print_lock at the same time, and the
\* two locks never bring the tasks to a standstill: while a task is at work,
\* some task can take a step.
C34_NoNestedLocks ==
    /\ \A t \in Tasks : ~(stats_lock = t /\ print_lock = t)
    /\ (\E t \in Tasks : task[t].pc \notin {"start", "done"}) => ENABLED TaskStep

\* C34 witness: both locks are held, by different tasks
C34_Witness ==
    \E t, u \in Tasks :
        /\ t # u /\ stats_lock = t /\ print_lock = u
        /\ task[t].pc = "stats_locked" /\ task[u].pc = "printing"

\* The tasks of the batch that raised
RaisedTasks == {t \in Tasks : task[t].raised}

\* C35: when every task of the batch has completed, total_records plus the
\* number of tasks that raised equals total_inserted + total_duplicates +
\* total_errors; each task that added its results had every returned record
\* counted as exactly one of inserted, duplicate or error.
C35_StatsBalance ==
    (\A t \in Tasks : task[t].pc = "done") =>
        /\ batch_results.total_records + Cardinality(RaisedTasks) =
              batch_results.total_inserted + batch_results.total_duplicates
                  + batch_results.total_errors
        /\ \A t \in Tasks :
              task[t].counted =>
                  Len(task[t].ret) = task[t].inserted_count
                      + task[t].duplicate_count + task[t].error_count

\* C35 witness: a batch has ended in which one task raised and the other
\* added the records it returned
C35_Witness ==
    /\ batch_queries # <<>> /\ \A t \in Tasks : task[t].pc = "done"
    /\ Cardinality(RaisedTasks) = 1
    /\ batch_results.total_records > 0 /\ batch_results.total_errors = 1

\* The errors that insert_data_batch reported to the tasks that added their
\* results
InsertErrors == SeqSum([t \in Tasks |-> IF task[t].counted THEN task[t].error_count ELSE 0])

\* C36: an exception raised in a task is caught in the task and counted
\* once: no future holds an exception, and the errors of the batch and of
\* the run are the insert errors plus one for each task that raised, the
\* completion loop adding none.
C36_RaisedCountedOnce ==
    /\ \A t \in Tasks : ~task[t].escaped
    /\ (batch_queries # <<>> /\ \A t \in Tasks : task[t].pc = "done") =>
          batch_results.total_errors = InsertErrors + Cardinality(RaisedTasks)
    /\ cpc = "finished" =>
          global_stats.total_errors = InsertErrors + Cardinality(RaisedTasks)

\* C36 witness: the run has ended with its summary; one task raised while it
\* was fetching and one error is counted
C36_Witness ==
    /\ cpc = "finished"
    /\ \E t \in Tasks : task[t].raised /\ task[t].ret = <<>>
    /\ global_stats.total_errors = 1

\* The positions of the returned list whose hit the store holds for the query
StoredReturned(t) ==
    {i \in 1..Len(task[t].ret) :
        ItemExistsForQuery(run_store, QueryOf(t), task[t].ret[i].itemId)}

\* C37: in daily mode an existence check that raised answers False: the walk
\* does not stop at that hit, the hit is appended as if it were new, and the
\* walk goes on. A walk that ended DONE returned a prefix of the feed, in
\* which a hit the store holds for the query stands only where a check
\* raised; it stopped at a hit the store does hold, or it returned the whole
\* feed.
C37_FailsOpen ==
    \A t \in Tasks :
        (mode = "daily" /\ task[t].ended = "DONE") =>
            LET m == Len(task[t].ret)
                fd == FeedOfTask(t)
            IN /\ m <= Len(fd) /\ ItemIds(task[t].ret) = SubSeq(fd, 1, m)
               /\ Cardinality(StoredReturned(t)) <= faults
               /\ IF task[t].found_existing
                  THEN /\ m < Len(fd)
                       /\ ItemExistsForQuery(run_store, QueryOf(t), fd[m + 1])
                  ELSE m = Len(fd)

\* C37 witness: the checks of the first two hits raised, both hits are stored
\* for the query and were appended, and the walk went on to the second page
C37_Witness ==
    /\ mode = "daily" /\ task[1].ended = "DONE" /\ faults = 2
    /\ StoredReturned(1) = {1, 2}
    /\ Len(task[1].requested) >= 2 /\ Len(task[1].ret) >= 3

\* The records of t's returned list that insert_data_batch has gone through
\* and that have no itemId key
SavedWithoutKey(t) ==
    {i \in 1..(task[t].idx - 1) : task[t].ret[i].itemId = MissingItemId}

\* C38: in daily mode a hit whose itemId is missing or empty is never the hit
\* the walk stops at, and it is appended like a new hit: a walk that ended
\* DONE returned the feed up to a hit that has an itemId, or all of it. A
\* record without the itemId key is never stored and is counted in errors,
\* never as inserted or as a duplicate.
C38_HitsWithoutItemId ==
    \A t \in Tasks :
        /\ (mode = "daily" /\ task[t].ended = "DONE") =>
               LET m == Len(task[t].ret)
                   fd == FeedOfTask(t)
               IN /\ m <= Len(fd) /\ ItemIds(task[t].ret) = SubSeq(fd, 1, m)
                  /\ IF task[t].found_existing
                     THEN m < Len(fd) /\ fd[m + 1] \notin {MissingItemId, EmptyItemId}
                     ELSE m = Len(fd)
        /\ \A r \in store : r.itemId # MissingItemId
        /\ task[t].error_count >= Cardinality(SavedWithoutKey(t))
        /\ task[t].inserted_count + task[t].duplicate_count
              <= (task[t].idx - 1) - Cardinality(SavedWithoutKey(t))

\* C38 witness: the store holds a record with an empty itemId and item 1 for
\* the query; the daily walk went past a hit without itemId and a hit with an
\* empty one, stopped at item 1, and the save counted the first as an error
\* and the second as a duplicate, with no store error
C38_Witness ==
    /\ mode = "daily" /\ FeedOfTask(1) = <<MissingItemId, EmptyItemId, 1>>
    /\ task[1].ended = "DONE" /\ task[1].found_existing
    /\ ItemIds(task[1].ret) = <<MissingItemId, EmptyItemId>>
    /\ task[1].pc = "stats" /\ faults = 0
    /\ task[1].error_count = 1 /\ task[1].duplicate_count = 1

\* The call of SQLDBHandler.insert_data_batch has returned its result
SqlReturned == sql.pc = "returned"

\* C39 as stated: the returned "inserted" is the number of rows the call
\* durably added to the table; when the batch fails as a whole or no
\* connection is available the result is inserted = 0 with errors = the
\* number of records; inserted + duplicates + errors is the number of records
\* in every case.
C39_AsStated ==
    SqlReturned =>
        /\ sql.result.inserted = Cardinality(sql.rows \ sql.rows0)
        /\ sql.failed # "no" =>
              sql.result.inserted = 0 /\ sql.result.errors = Len(sql.data)
        /\ sql.result.inserted + sql.result.duplicates + sql.result.errors
              = Len(sql.data)

\* The queries of the outer batches 0..b, in the order they were submitted
RECURSIVE Dispatched(_)
Dispatched(b) ==
    IF b = 0 THEN BatchSlice(all_queries, 0)
    ELSE Dispatched(b - 1) \o BatchSlice(all_queries, b)

\* C40: the tasks of an outer batch are the queries of its slice, one task
\* each; when the run reaches the summary the batches it ran hold every input
\* query once, in order, total_queries_processed is the number of input
\* queries, and queries_up_to_date and the queries updated are non-negative
\* and add up to it.
C40_QueryAccounting ==
    /\ batch_queries = BatchSlice(all_queries, batch_num)
    /\ DOMAIN task = 1..Len(batch_queries)
    /\ cpc = "finished" =>
          /\ Dispatched(batch_num) = all_queries
          /\ global_stats.total_queries_processed = Len(all_queries)
          /\ global_stats.queries_up_to_date >= 0
          /\ global_stats.queries_updated >= 0
          /\ global_stats.queries_up_to_date + global_stats.queries_updated
                = global_stats.total_queries_processed

\* C40 witness: a run of two outer batches reached the summary with one query
\* updated and the others up to date
C40_Witness ==
    /\ cpc = "finished" /\ batch_num = 1
    /\ global_stats.total_queries_processed = batch_size + 1
    /\ global_stats.queries_updated = 1
    /\ global_stats.queries_up_to_date = batch_size

====
